---- MODULE Spec2Model ----
(***************************************************************************)
(* Model of the PR analyzer's job orchestration: the analysis_tasks        *)
(* records (app/models.py), the Celery task analyze_pr_task with its       *)
(* retry policy and time limits, and the update contract                   *)
(* _update_task_status (app/celery_app.py).                                *)
(***************************************************************************)
EXTENDS Integers, Sequences, FiniteSets, TLC

(* ---------------- bounds of the model ---------------- *)
\* largest number of units a resolved pull request has in the model
MaxUnits == 2
\* largest value of the wall clock (datetime.utcnow()) in the model
MaxClock == 1

(* ---------------- program constants ---------------- *)
\* self.retry(..., max_retries=3)
max_retries == 3

TaskIds == {"t1"}

\* messages of the job-fatal errors an attempt can raise
Errors == {"SourceUnavailable", "AggregationError"}
\* str() of the exception the soft time limit raises inside the task
SoftTimeLimitExceeded == "SoftTimeLimitExceeded"

\* Optional[...] values: None, or a one-element tuple holding the value
None == <<>>
Some(v) == <<v>>

\* TaskStatus
PENDING == "pending"
PROCESSING == "processing"
COMPLETED == "completed"
FAILED == "failed"
TaskStatus == {PENDING, PROCESSING, COMPLETED, FAILED}

\* a freshly inserted AnalysisTask row (column defaults of the model class)
AnalysisTask ==
  [status |-> PENDING, updated_at |-> None, started_at |-> None,
   completed_at |-> None, results |-> None, error_message |-> None,
   total_files |-> 0, processed_files |-> 0, current_file |-> None]

VARIABLES
  db,       \* the analysis_tasks table: task_id -> row, for the stored ids
  pc,       \* position of the execution of analyze_pr_task for each task_id
  retries,  \* self.request.retries of the current execution
  exc,      \* the exception caught by the except clause (its str())
  files,    \* number of units the coordinator resolved in this attempt
  done,     \* units the coordinator has finished in this attempt
  soft,     \* whether the soft time limit of this execution has fired
  now,      \* the wall clock
  runs,     \* history: how many executions of the task have started
  allFatal, \* history: no time limit has fired, failures were job-fatal errors
  stored,   \* history: the latest _update_task_status call was committed
  resp,     \* the HTTP response produced by this step, if it was an API call
  unit,     \* the arguments and backend outcome of one analyze_file call
  result,   \* what that analyze_file call returned, None before it returns
  session,  \* the open session of an _update_task_status call, None if none
  job,      \* the request of a submission and the analysis types it leads to;
            \* None where the request is not followed
  cache     \* the entries of the vector cache: entry -> day it was last used

vars == <<db, pc, retries, exc, files, done, soft, now, runs, allFatal, stored, resp, unit, result, session, job, cache>>

\* an empty vector cache
NoEntries == [e \in {} |-> 0]

\* no API call was made by the step
NoResp == [op |-> "none"]

\* a step of the worker or of the clock: it answers no API call and runs
\* no agent
Quiet == resp' = NoResp /\ UNCHANGED <<unit, result, session, job, cache>>

\* the file a unit belongs to
FileOf(k) == IF k % 2 = 1 THEN "a.py" ELSE "b.py"

(* ---------------- _update_task_status ---------------- *)

\* variant: total_files is never written
ApplyUpdateDropTotal(task, status, results, error_message, started_at, completed_at, current_file, processed_files, total_files, t) ==
  [task EXCEPT !.status = status, !.updated_at = Some(t),
               !.results = IF results # None THEN results ELSE @,
               !.error_message = IF error_message # None THEN error_message
                                 ELSE @,
               !.started_at = IF started_at # None THEN started_at ELSE @,
               !.completed_at = IF completed_at # None THEN completed_at
                                ELSE @,
               !.current_file = IF current_file # None THEN current_file
                                ELSE @,
               !.processed_files = IF processed_files # None
                                   THEN processed_files[1] ELSE @]

\* variant: every column is assigned, a missing argument clears the column
ApplyUpdateOverwrite(task, status, results, error_message, started_at, completed_at, current_file, processed_files, total_files, t) ==
  [status          |-> status,
   updated_at      |-> Some(t),
   results         |-> results,
   error_message   |-> error_message,
   started_at      |-> started_at,
   completed_at    |-> completed_at,
   current_file    |-> current_file,
   processed_files |-> IF processed_files # None THEN processed_files[1]
                       ELSE 0,
   total_files     |-> IF total_files # None THEN total_files[1] ELSE 0]

\* the body of "if task:" : status and updated_at always, the rest if given
ApplyUpdate(task, status, results, error_message, started_at, completed_at, current_file, processed_files, total_files, t) ==
  [status          |-> status,
   updated_at      |-> Some(t),
   results         |-> IF results # None THEN results ELSE task.results,
   error_message   |-> IF error_message # None THEN error_message
                       ELSE task.error_message,
   started_at      |-> IF started_at # None THEN started_at
                       ELSE task.started_at,
   completed_at    |-> IF completed_at # None THEN completed_at
                       ELSE task.completed_at,
   current_file    |-> IF current_file # None THEN current_file
                       ELSE task.current_file,
   processed_files |-> IF processed_files # None THEN processed_files[1]
                       ELSE task.processed_files,
   total_files     |-> IF total_files # None THEN total_files[1]
                       ELSE task.total_files]

\* variant: the query has no filter on task_id, every row is updated
UpdateTaskStatusEveryRow(storeOk, table, task_id, status, results, error_message, started_at, completed_at, current_file, processed_files, total_files, t) ==
  IF storeOk /\ task_id \in DOMAIN table
  THEN [u \in DOMAIN table |->
          ApplyUpdate(table[u], status, results, error_message,
                      started_at, completed_at, current_file,
                      processed_files, total_files, t)]
  ELSE table

\* variant: a row is inserted when the query finds none
UpdateTaskStatusUpsert(storeOk, table, task_id, status, results, error_message, started_at, completed_at, current_file, processed_files, total_files, t) ==
  IF storeOk
  THEN [u \in DOMAIN table \cup {task_id} |->
          IF u = task_id
          THEN ApplyUpdate(IF task_id \in DOMAIN table THEN table[task_id]
                           ELSE AnalysisTask,
                           status, results, error_message, started_at,
                           completed_at, current_file, processed_files,
                           total_files, t)
          ELSE table[u]]
  ELSE table

\* storeOk = FALSE: the session, the query or the commit raises; the
\* exception is logged and swallowed and nothing is persisted
UpdateTaskStatus(storeOk, table, task_id, status, results, error_message, started_at, completed_at, current_file, processed_files, total_files, t) ==
  IF storeOk /\ task_id \in DOMAIN table
  THEN [table EXCEPT ![task_id] =
          ApplyUpdate(table[task_id], status, results, error_message,
                      started_at, completed_at, current_file,
                      processed_files, total_files, t)]
  ELSE table

\* kwargs.get(key, default)
Get(kwargs, key, default) ==
  IF key \in DOMAIN kwargs THEN kwargs[key] ELSE default

\* progress_callback(**kwargs)
ProgressCallback(storeOk, table, task_id, kwargs, t) ==
  UpdateTaskStatus(storeOk, table, task_id,
                   Get(kwargs, "status", <<PROCESSING>>)[1],
                   None, None, None, None,
                   Get(kwargs, "current_file", None),
                   Get(kwargs, "processed_files", None),
                   Get(kwargs, "total_files", None), t)

\* the progress update the coordinator emits after a unit completes
ProgressKwargs(k, n) ==
  [current_file |-> Some(FileOf(k)), processed_files |-> Some(k),
   total_files |-> Some(n)]

\* the aggregated results the coordinator returns: the analysed files and a
\* summary
AggregatedResults(n) ==
  Some([files |-> [k \in 1..n |-> FileOf(k)], summary |-> [units |-> n]])

(* ---------------- initial state ---------------- *)
Init ==
  /\ db = [t \in {} |-> AnalysisTask]
  /\ pc = [t \in TaskIds |-> "none"]
  /\ retries = [t \in TaskIds |-> 0]
  /\ exc = [t \in TaskIds |-> None]
  /\ files = [t \in TaskIds |-> 0]
  /\ done = [t \in TaskIds |-> 0]
  /\ soft = [t \in TaskIds |-> FALSE]
  /\ now = 0
  /\ runs = [t \in TaskIds |-> 0]
  /\ allFatal = [t \in TaskIds |-> TRUE]
  /\ stored = [t \in TaskIds |-> TRUE]
  /\ resp = NoResp
  /\ unit = None
  /\ result = None
  /\ session = None
  /\ job = None
  /\ cache = NoEntries

(* ---------------- the analysis types of a job ---------------- *)

\* longest analysis_types list of a request in the model
MaxTypes == 2

\* the default of analyze_pr and of analyze_pr_task
AllTypes == <<"style", "bug", "security", "performance">>

\* variant: only an absent value is replaced
OrDefaultIfNone(value, default) ==
  IF value = None THEN default ELSE value[1]

\* Python's "value or default" on an optional list: None and [] are falsy
OrDefault(value, default) ==
  IF value = None \/ value[1] = <<>> THEN default ELSE value[1]

\* the keyword arguments analyze_pr passes to analyze_pr_task.delay
DelayKwargs(request) ==
  [github_token |-> request.github_token,
   analysis_types |-> Some(OrDefault(request.analysis_types, AllTypes))]

\* "if analysis_types is None": the list the execution runs with
TaskAnalysisTypes(kwargs) ==
  IF kwargs.analysis_types = None THEN AllTypes
  ELSE kwargs.analysis_types[1]

(* ---------------- submission (app/main.py analyze_pr) ---------------- *)

\* HTTPException(status_code, detail)
HTTPException(op, task_id, status_code, detail) ==
  [op |-> op, task_id |-> task_id, code |-> status_code, detail |-> detail]

\* a response model returned with 200
Ok(op, task_id, body) ==
  [op |-> op, task_id |-> task_id, code |-> 200, body |-> body]

\* variant: an error of .delay() is not reported
SubmitSucceedsNoEnqueue(committed, enqueued) == committed

\* the try block reaches its return only when neither db.commit() nor
\* analyze_pr_task.delay() raised
SubmitSucceeds(committed, enqueued) == committed /\ enqueued

\* variant: the execution is enqueued before the row is committed
AfterSubmitEnqueueFirst(committed, enqueued) ==
  IF enqueued THEN "queued" ELSE IF committed THEN "lost" ELSE "none"

\* where the submission leaves the job: db.commit() comes first and when it
\* raises .delay() is not reached; when .delay() raises the row is there
\* and no execution is
AfterSubmit(committed, enqueued) ==
  IF ~committed THEN "none" ELSE IF enqueued THEN "queued" ELSE "lost"

\* the row is committed, then the execution is enqueued with .delay();
\* when the commit raises nothing is stored; when .delay() raises the row
\* stays behind and nothing is enqueued; both are answered with 500
Submit(t) ==
  /\ t \notin DOMAIN db
  /\ pc[t] = "none"
  /\ \E committed, enqueued \in BOOLEAN :
       /\ db' = IF committed
                THEN [u \in DOMAIN db \cup {t} |->
                        IF u = t THEN AnalysisTask ELSE db[u]]
                ELSE db
       /\ pc' = [pc EXCEPT ![t] = AfterSubmit(committed, enqueued)]
       /\ resp' = IF SubmitSucceeds(committed, enqueued)
                  THEN Ok("analyze_pr", t, [status |-> PENDING])
                  ELSE HTTPException("analyze_pr", t, 500,
                                     "Failed to start analysis")
       /\ job' = IF job # None /\ committed /\ enqueued
                 THEN Some([job[1] EXCEPT !.kwargs = Some(DelayKwargs(job[1].request))])
                 ELSE job
  /\ UNCHANGED <<retries, exc, files, done, soft, now, runs, allFatal, stored, unit, result, session, cache>>

(* ---------------- analyze_pr_task ---------------- *)

\* pc values at which the body of the try block is executing
InTry == {"resolve", "run", "finish", "committed"}
\* pc values at which the except clause is executing
InExcept == {"handler", "failed"}
\* pc values at which no execution exists any more
Ended == {"succeeded", "exhausted", "aborted", "killed"}

\* the worker takes the execution off the queue (first delivery, or a
\* retry whose countdown has elapsed) and the task marks the job processing
StartAttempt(t) ==
  /\ resp' = NoResp
  /\ UNCHANGED <<unit, result, session, cache>>
  /\ pc[t] = "queued"
  /\ job' = IF job # None /\ job[1].kwargs # None
            THEN Some([job[1] EXCEPT
                         !.analysis_types =
                            Some(TaskAnalysisTypes(job[1].kwargs[1]))])
            ELSE job
  /\ \E storeOk \in BOOLEAN :
       /\ db' = UpdateTaskStatus(storeOk, db, t, PROCESSING, None, None,
                                 Some(now), None, None, None, None, now)
       /\ stored' = [stored EXCEPT ![t] = storeOk]
  /\ pc' = [pc EXCEPT ![t] = "resolve"]
  /\ soft' = [soft EXCEPT ![t] = FALSE]
  /\ files' = [files EXCEPT ![t] = 0]
  /\ done' = [done EXCEPT ![t] = 0]
  /\ exc' = [exc EXCEPT ![t] = None]
  /\ runs' = [runs EXCEPT ![t] = @ + 1]
  /\ UNCHANGED <<retries, now, allFatal>>

\* the coordinator resolves the changed files and cuts them into units
Resolve(t) ==
  /\ Quiet
  /\ pc[t] = "resolve"
  /\ \E n \in 0..MaxUnits : files' = [files EXCEPT ![t] = n]
  /\ pc' = [pc EXCEPT ![t] = "run"]
  /\ UNCHANGED <<db, retries, exc, done, soft, now, runs, allFatal, stored>>

\* a unit completes and the coordinator reports progress
UnitDone(t) ==
  /\ Quiet
  /\ pc[t] = "run"
  /\ done[t] < files[t]
  /\ done' = [done EXCEPT ![t] = @ + 1]
  /\ \E storeOk \in BOOLEAN :
       /\ db' = ProgressCallback(storeOk, db, t,
                                 ProgressKwargs(done[t] + 1, files[t]), now)
       /\ stored' = [stored EXCEPT ![t] = storeOk]
  /\ UNCHANGED <<pc, retries, exc, files, soft, now, runs, allFatal>>

\* every unit is finished: the coordinator aggregates and returns
Aggregate(t) ==
  /\ Quiet
  /\ pc[t] = "run"
  /\ done[t] = files[t]
  /\ pc' = [pc EXCEPT ![t] = "finish"]
  /\ UNCHANGED <<db, retries, exc, files, done, soft, now, runs, allFatal, stored>>

\* _update_task_status(task_id, "completed", results=..., completed_at=...)
Complete(t) ==
  /\ Quiet
  /\ pc[t] = "finish"
  /\ \E storeOk \in BOOLEAN :
       /\ db' = UpdateTaskStatus(storeOk, db, t, COMPLETED,
                                 AggregatedResults(files[t]), None, None,
                                 Some(now), None, None, None, now)
       /\ stored' = [stored EXCEPT ![t] = storeOk]
  /\ pc' = [pc EXCEPT ![t] = "committed"]
  /\ UNCHANGED <<retries, exc, files, done, soft, now, runs, allFatal>>

\* return results
Return(t) ==
  /\ Quiet
  /\ pc[t] = "committed"
  /\ pc' = [pc EXCEPT ![t] = "succeeded"]
  /\ UNCHANGED <<db, retries, exc, files, done, soft, now, runs, allFatal, stored>>

\* the coordinator raises a job-fatal error: while resolving the changed
\* files, or while aggregating after the last unit
RaiseFatal(t) ==
  /\ Quiet
  /\ \/ pc[t] = "resolve" /\ exc' = [exc EXCEPT ![t] = Some("SourceUnavailable")]
     \/ pc[t] = "run" /\ done[t] = files[t]
                      /\ exc' = [exc EXCEPT ![t] = Some("AggregationError")]
  /\ pc' = [pc EXCEPT ![t] = "handler"]
  /\ UNCHANGED <<db, retries, files, done, soft, now, runs, allFatal, stored>>

\* task_soft_time_limit: SoftTimeLimitExceeded is raised inside the task,
\* wherever the execution is; inside the try block the except clause
\* catches it, inside the except clause it leaves the task
SoftTimeLimit(t) ==
  /\ Quiet
  /\ ~soft[t]
  /\ pc[t] \in InTry \cup InExcept
  /\ soft' = [soft EXCEPT ![t] = TRUE]
  /\ IF pc[t] \in InTry
     THEN /\ pc' = [pc EXCEPT ![t] = "handler"]
          /\ exc' = [exc EXCEPT ![t] = Some(SoftTimeLimitExceeded)]
     ELSE /\ pc' = [pc EXCEPT ![t] = "aborted"]
          /\ UNCHANGED exc
  /\ allFatal' = [allFatal EXCEPT ![t] = FALSE]
  /\ UNCHANGED <<db, retries, files, done, now, runs, stored>>

\* task_time_limit: the worker process running the task is killed
HardTimeLimit(t) ==
  /\ Quiet
  /\ pc[t] \in InTry \cup InExcept
  /\ pc' = [pc EXCEPT ![t] = "killed"]
  /\ allFatal' = [allFatal EXCEPT ![t] = FALSE]
  /\ UNCHANGED <<db, retries, exc, files, done, soft, now, runs, stored>>

\* except Exception: _update_task_status(task_id, "failed", ...)
MarkFailed(t) ==
  /\ Quiet
  /\ pc[t] = "handler"
  /\ \E storeOk \in BOOLEAN :
       /\ db' = UpdateTaskStatus(storeOk, db, t, FAILED, None, exc[t], None,
                                 Some(now), None, None, None, now)
       /\ stored' = [stored EXCEPT ![t] = storeOk]
  /\ pc' = [pc EXCEPT ![t] = "failed"]
  /\ UNCHANGED <<retries, exc, files, done, soft, now, runs, allFatal>>

\* Task.retry: the execution is sent again with retries + 1 unless that
\* exceeds max_retries, in which case exc is raised and the task ends
RetryExhaustedEarly(request_retries) == request_retries + 1 >= max_retries

RetryExhausted(request_retries) == request_retries + 1 > max_retries

Retry(t) ==
  /\ Quiet
  /\ pc[t] = "failed"
  /\ IF RetryExhausted(retries[t])
     THEN /\ pc' = [pc EXCEPT ![t] = "exhausted"]
          /\ UNCHANGED retries
     ELSE /\ pc' = [pc EXCEPT ![t] = "queued"]
          /\ retries' = [retries EXCEPT ![t] = @ + 1]
  /\ UNCHANGED <<db, exc, files, done, soft, now, runs, allFatal, stored>>

\* time passes
Tick ==
  /\ Quiet
  /\ now < MaxClock
  /\ now' = now + 1
  /\ UNCHANGED <<db, pc, retries, exc, files, done, soft, runs, allFatal, stored>>

\* the steps the worker takes by itself when it keeps running
WorkerStep(t) ==
  \/ StartAttempt(t)
  \/ Resolve(t)
  \/ UnitDone(t)
  \/ Aggregate(t)
  \/ Complete(t)
  \/ Return(t)
  \/ MarkFailed(t)
  \/ Retry(t)

Next ==
  \/ \E t \in TaskIds : Submit(t)
  \/ \E t \in TaskIds : StartAttempt(t)
  \/ \E t \in TaskIds : Resolve(t)
  \/ \E t \in TaskIds : UnitDone(t)
  \/ \E t \in TaskIds : Aggregate(t)
  \/ \E t \in TaskIds : Complete(t)
  \/ \E t \in TaskIds : Return(t)
  \/ \E t \in TaskIds : RaiseFatal(t)
  \/ \E t \in TaskIds : SoftTimeLimit(t)
  \/ \E t \in TaskIds : HardTimeLimit(t)
  \/ \E t \in TaskIds : MarkFailed(t)
  \/ \E t \in TaskIds : Retry(t)
  \/ Tick

Spec == Init /\ [][Next]_vars

\* the worker keeps running enqueued work
FairSpec == Spec /\ \A t \in TaskIds : WF_vars(WorkerStep(t))

(* ---------------- status and results queries (app/main.py) ------------- *)

\* ids a client can ask for: the submitted ones and one never submitted
UnknownIds == {"ghost"}
QueryIds == TaskIds \cup UnknownIds

\* "not x" on a JSON column: NULL or an empty dict
Falsy(column) == column = None \/ column[1] = <<>>

\* _get_current_stage
GetCurrentStage(status) ==
  CASE status = PENDING -> "Queued for processing"
    [] status = PROCESSING -> "Analyzing code"
    [] status = COMPLETED -> "Analysis complete"
    [] status = FAILED -> "Analysis failed"
    [] OTHER -> "Unknown"

\* round((processed_files / total_files) * 100, 2), in hundredths of a percent
ProgressPercentage(task) ==
  IF task.total_files > 0
  THEN (2 * 10000 * task.processed_files + task.total_files)
         \div (2 * task.total_files)
  ELSE 0

\* _estimate_completion_time, with the clock counting seconds
EstimateCompletionTime(task, t) ==
  IF task.started_at = None \/ task.total_files = 0 THEN <<"Calculating...">>
  ELSE IF task.processed_files = 0 THEN <<"5-10 minutes">>
  ELSE LET estimated_seconds ==
             ((task.total_files - task.processed_files)
                * (t - task.started_at[1])) \div task.processed_files
       IN IF estimated_seconds < 60 THEN <<estimated_seconds, "seconds">>
          ELSE IF estimated_seconds < 3600
               THEN <<estimated_seconds \div 60, "minutes">>
               ELSE <<estimated_seconds \div 3600, "hours">>

\* TaskStatusResponse(...)
TaskStatusResponse(task, t) ==
  [status |-> task.status,
   progress |-> [percentage |-> ProgressPercentage(task),
                 current_stage |-> GetCurrentStage(task.status),
                 files_processed |-> task.processed_files,
                 total_files |-> task.total_files],
   current_file |-> task.current_file,
   processed_files |-> task.processed_files,
   total_files |-> task.total_files,
   started_at |-> task.started_at,
   estimated_completion |->
     IF task.status = PROCESSING /\ task.started_at # None
     THEN Some(EstimateCompletionTime(task, t)) ELSE None,
   error_message |-> task.error_message]

\* variant: a row without units is treated like a missing row
GetTaskStatusHidesEmpty(storeOk, table, task_id, t) ==
  IF ~storeOk
  THEN HTTPException("status", task_id, 500, "Failed to retrieve task status")
  ELSE IF task_id \notin DOMAIN table \/ table[task_id].total_files = 0
  THEN HTTPException("status", task_id, 404, "Task not found")
  ELSE Ok("status", task_id, TaskStatusResponse(table[task_id], t))

\* get_task_status; storeOk = FALSE: the query raises
GetTaskStatus(storeOk, table, task_id, t) ==
  IF ~storeOk
  THEN HTTPException("status", task_id, 500, "Failed to retrieve task status")
  ELSE IF task_id \notin DOMAIN table
  THEN HTTPException("status", task_id, 404, "Task not found")
  ELSE Ok("status", task_id, TaskStatusResponse(table[task_id], t))

\* AnalysisResults(...): the three keys read from the results column
AnalysisResults(task) ==
  [status |-> task.status,
   files |-> Get(task.results[1], "files", <<>>),
   summary |-> Get(task.results[1], "summary", <<>>),
   metadata |-> Get(task.results[1], "metadata", <<>>),
   completed_at |-> task.completed_at]

\* variant: the results of a job in any status are returned
GetAnalysisResultsAnyStatus(storeOk, table, task_id) ==
  IF ~storeOk
  THEN HTTPException("results", task_id, 500, "Failed to retrieve results")
  ELSE IF task_id \notin DOMAIN table
  THEN HTTPException("results", task_id, 404, "Task not found")
  ELSE IF Falsy(table[task_id].results)
  THEN HTTPException("results", task_id, 404, "No results found")
  ELSE Ok("results", task_id, AnalysisResults(table[task_id]))

\* get_analysis_results; storeOk = FALSE: the query raises
GetAnalysisResults(storeOk, table, task_id) ==
  IF ~storeOk
  THEN HTTPException("results", task_id, 500, "Failed to retrieve results")
  ELSE IF task_id \notin DOMAIN table
  THEN HTTPException("results", task_id, 404, "Task not found")
  ELSE IF table[task_id].status # COMPLETED
  THEN HTTPException("results", task_id, 400, "Task is not completed")
  ELSE IF Falsy(table[task_id].results)
  THEN HTTPException("results", task_id, 404, "No results found")
  ELSE Ok("results", task_id, AnalysisResults(table[task_id]))

\* variant: a handler deletes the record it has read
AfterQueryPurges(table, task_id) ==
  [u \in DOMAIN table \ {task_id} |-> table[u]]

\* the table after a query handler has run: the handlers execute one select
\* and neither add, change, delete nor commit anything
AfterQuery(table, task_id) == table

\* variant: a query reads the uncommitted object of an open session
VisibleDirty(table, open) ==
  IF open # None /\ open[1].task_id \in DOMAIN table
  THEN [table EXCEPT ![open[1].task_id] = open[1].row]
  ELSE table

\* the table a query of another session reads: what has been committed
Visible(table, open) == table

\* GET /status/{task_id}
StatusQuery(id) ==
  /\ \E storeOk \in BOOLEAN : resp' = GetTaskStatus(storeOk, Visible(db, session), id, now)
  /\ db' = AfterQuery(db, id)
  /\ UNCHANGED <<pc, retries, exc, files, done, soft, now, runs, allFatal, stored, unit, result, session, job, cache>>

\* GET /results/{task_id}
ResultsQuery(id) ==
  /\ \E storeOk \in BOOLEAN : resp' = GetAnalysisResults(storeOk, Visible(db, session), id)
  /\ db' = AfterQuery(db, id)
  /\ UNCHANGED <<pc, retries, exc, files, done, soft, now, runs, allFatal, stored, unit, result, session, job, cache>>

\* a step of the job runner other than the passing of time
RunnerStep ==
  \/ \E t \in TaskIds : Submit(t)
  \/ \E t \in TaskIds : StartAttempt(t)
  \/ \E t \in TaskIds : Resolve(t)
  \/ \E t \in TaskIds : UnitDone(t)
  \/ \E t \in TaskIds : Aggregate(t)
  \/ \E t \in TaskIds : Complete(t)
  \/ \E t \in TaskIds : Return(t)
  \/ \E t \in TaskIds : RaiseFatal(t)
  \/ \E t \in TaskIds : SoftTimeLimit(t)
  \/ \E t \in TaskIds : HardTimeLimit(t)
  \/ \E t \in TaskIds : MarkFailed(t)
  \/ \E t \in TaskIds : Retry(t)

ApiNext ==
  \/ RunnerStep
  \/ \E id \in QueryIds : StatusQuery(id)
  \/ \E id \in QueryIds : ResultsQuery(id)

\* the job runner together with clients that query it, all within one
\* reading of the wall clock
ApiSpec == Init /\ [][ApiNext]_vars

(* ---------------- analysis agents (app/agents) ---------------- *)

\* AnalysisType
AnalysisTypes == {"style", "bug", "security", "performance"}
\* IssueSeverity
Severities == {"critical", "high", "medium", "low"}

\* JSON values as json.loads builds them, tagged with their Python type;
\* numbers with a fraction are held in hundredths
JNull == [t |-> "null"]
JStr(string) == [t |-> "str", s |-> string]
JNum(n) == [t |-> "num", n |-> n]
JList(seq) == [t |-> "list", items |-> seq]
JDict(d) == [t |-> "dict", d |-> d]
\* re.search found no {...} in the response
NoJson == [t |-> "absent"]
\* json.loads rejects what re.search found
InvalidJson == [t |-> "invalid"]

\* an exception leaving a function, and a value returned by it
Raise(e) == [ok |-> FALSE, exc |-> e]
Return_(v) == [ok |-> TRUE, value |-> v]

\* str.lower() on the severity spellings of the model
Lower(string) ==
  CASE string = "Low" -> "low"
    [] OTHER -> string

\* BaseAgent._parse_severity: severity_map.get(severity_str.lower(), MEDIUM)
ParseSeverity(severity_str) ==
  IF severity_str.t # "str" THEN Raise("AttributeError")
  ELSE IF Lower(severity_str.s) \in Severities
       THEN Return_(Lower(severity_str.s))
       ELSE Return_("medium")

\* variant: every agent falls back to medium
DefaultSeverityAllMedium(agent) == "medium"

\* the default of issue_data.get("severity", ...) in each agent
DefaultSeverity(agent) == IF agent = "security" THEN "high" ELSE "medium"

\* dict.get(key, default) on a parsed JSON object
JGet(data, key, default) == Get(data.d, key, default)

\* variant: the suggestion of the response is dropped
StructuredIssueNoSuggestion(agent, issue_data) ==
  IF issue_data.t # "dict" THEN Raise("AttributeError")
  ELSE LET severity ==
             ParseSeverity(JGet(issue_data, "severity",
                                JStr(DefaultSeverity(agent))))
       IN IF ~severity.ok THEN severity
          ELSE Return_(
            [type |-> JGet(issue_data, "type", JStr(agent)),
             line |-> JGet(issue_data, "line", JNull),
             severity |-> severity.value,
             description |-> JGet(issue_data, "description", JStr("")),
             suggestion |-> JNull,
             code_snippet |-> JGet(issue_data, "code_snippet", JNull),
             fixed_code |-> JGet(issue_data, "fixed_code", JNull),
             confidence_score |-> JGet(issue_data, "confidence_score", JNull)])

\* CodeIssue(...) built from one element of "issues" by parse_analysis_result
StructuredIssue(agent, issue_data) ==
  IF issue_data.t # "dict" THEN Raise("AttributeError")
  ELSE LET severity ==
             ParseSeverity(JGet(issue_data, "severity",
                                JStr(DefaultSeverity(agent))))
       IN IF ~severity.ok THEN severity
          ELSE Return_(
            [type |-> JGet(issue_data, "type", JStr(agent)),
             line |-> JGet(issue_data, "line", JNull),
             severity |-> severity.value,
             description |-> JGet(issue_data, "description", JStr("")),
             suggestion |-> JGet(issue_data, "suggestion", JNull),
             code_snippet |-> JGet(issue_data, "code_snippet", JNull),
             fixed_code |-> JGet(issue_data, "fixed_code", JNull),
             confidence_score |-> JGet(issue_data, "confidence_score", JNull)])

\* the for loop over the elements of "issues": the issues built so far, or
\* the first exception
RECURSIVE StructuredIssues(_, _)
StructuredIssues(agent, items) ==
  IF items = <<>> THEN Return_(<<>>)
  ELSE LET head == StructuredIssue(agent, Head(items))
           tail == StructuredIssues(agent, Tail(items))
       IN IF ~head.ok THEN head
          ELSE IF ~tail.ok THEN tail
          ELSE Return_(<<head.value>> \o tail.value)

\* the "if json_match:" branch: json.loads and the loop over the issues
ParseStructured(agent, json) ==
  IF json = InvalidJson THEN Raise("JSONDecodeError")
  ELSE LET issues == JGet(json, "issues", JList(<<>>))
       IN IF issues.t = "list" THEN StructuredIssues(agent, issues.items)
          ELSE IF issues.t \in {"null", "num"} THEN Raise("TypeError")
          ELSE Raise("AttributeError")

\* the pattern tables of _parse_text_response: the phrase a line must hold
\* after "line N", the phrase of the alternative without a line number
\* ("" if the pattern has none), the description and the severity
Pattern(phrase, alt, description, severity) ==
  [phrase |-> phrase, alt |-> alt, description |-> description,
   severity |-> severity]

style_patterns ==
  << Pattern("too long", "", "Line length violation", "medium"),
     Pattern("indentation", "", "Indentation issue", "low"),
     Pattern("naming", "", "Naming convention violation", "medium"),
     Pattern("whitespace", "", "Whitespace issue", "low") >>

bug_patterns ==
  << Pattern("null pointer", "", "Potential null pointer exception", "high"),
     Pattern("index bound", "", "Array index out of bounds", "high"),
     Pattern("exception unhandled", "", "Unhandled exception", "medium"),
     Pattern("infinite loop", "", "Potential infinite loop", "critical"),
     Pattern("resource leak", "", "Resource leak", "high"),
     Pattern("race condition", "", "Race condition", "high"),
     Pattern("dead code", "", "Dead code detected", "medium") >>

security_patterns ==
  << Pattern("sql injection", "", "SQL Injection vulnerability", "critical"),
     Pattern("xss", "cross site script", "Cross-Site Scripting risk", "high"),
     Pattern("hardcoded secret", "api key", "Hardcoded credentials",
             "critical"),
     Pattern("command injection", "", "Command injection vulnerability",
             "critical"),
     Pattern("path traversal", "", "Path traversal vulnerability", "high"),
     Pattern("insecure crypto", "", "Weak cryptographic implementation",
             "high"),
     Pattern("unsafe deserializ", "", "Unsafe deserialization", "high"),
     Pattern("auth bypass", "", "Authentication bypass", "critical"),
     Pattern("access control", "", "Access control violation", "high"),
     Pattern("information disclosure", "", "Information disclosure",
             "medium") >>

performance_patterns ==
  << Pattern("O(n2)", "nested loop", "Nested loop performance issue", "high"),
     Pattern("inefficient algorithm", "", "Inefficient algorithm", "medium"),
     Pattern("memory leak", "", "Memory leak", "high"),
     Pattern("blocking I/O", "synchronous call", "Blocking I/O operation",
             "medium"),
     Pattern("string concatenation loop", "", "String concatenation in loop",
             "medium"),
     Pattern("redundant computation", "", "Redundant computation", "low"),
     Pattern("cache miss", "inefficient cache", "Cache inefficiency",
             "medium"),
     Pattern("database N+1", "query loop", "Database N+1 query problem",
             "high"),
     Pattern("large object creation", "", "Excessive object creation",
             "medium"),
     Pattern("inefficient data structure", "", "Inefficient data structure",
             "medium") >>

PatternsOf(agent) ==
  CASE agent = "style" -> style_patterns
    [] agent = "bug" -> bug_patterns
    [] agent = "security" -> security_patterns
    [] agent = "performance" -> performance_patterns

\* variant: one confidence for every agent
TextConfidenceFlat(agent) == 70

\* confidence_score of the auto-detected issues, in hundredths
TextConfidence(agent) ==
  CASE agent = "style" -> 70
    [] agent = "bug" -> 75
    [] agent = "security" -> 80
    [] agent = "performance" -> 70

\* one re.finditer match of a pattern in a line of the response: the line
\* says "line N ... phrase", or it holds the alternative's phrase, which
\* leaves group(1) empty
Matches(pattern, text_line) ==
  \/ text_line.line # None /\ text_line.phrase = pattern.phrase
  \/ pattern.alt # "" /\ text_line.phrase = pattern.alt

TextIssue(agent, pattern, text_line) ==
  [type |-> JStr(agent),
   line |-> IF text_line.line # None /\ text_line.phrase = pattern.phrase
            THEN JNum(text_line.line[1]) ELSE JNull,
   severity |-> ParseSeverity(JStr(pattern.severity)).value,
   description |-> JStr(pattern.description \o " (auto-detected)"),
   suggestion |-> JNull, code_snippet |-> JNull, fixed_code |-> JNull,
   confidence_score |-> JNum(TextConfidence(agent))]

\* the matches of one pattern, in the order of the text
RECURSIVE PatternIssues(_, _, _)
PatternIssues(agent, pattern, text) ==
  IF text = <<>> THEN <<>>
  ELSE (IF Matches(pattern, Head(text))
        THEN <<TextIssue(agent, pattern, Head(text))>> ELSE <<>>)
       \o PatternIssues(agent, pattern, Tail(text))

\* the outer loop over the pattern table
RECURSIVE TableIssues(_, _, _)
TableIssues(agent, patterns, text) ==
  IF patterns = <<>> THEN <<>>
  ELSE PatternIssues(agent, Head(patterns), text)
       \o TableIssues(agent, Tail(patterns), text)

\* _parse_text_response
ParseTextResponse(agent, text) == TableIssues(agent, PatternsOf(agent), text)

\* FileAnalysisResult(...)
FileAnalysisResult(file_path, language, issues, processing_time) ==
  [file_path |-> file_path, language |-> language, issues |-> issues,
   processing_time |-> processing_time, cached |-> FALSE]

\* parse_analysis_result of the four agents: only JSONDecodeError and
\* KeyError are caught and answered with the text fallback
ParseAnalysisResult(agent, response, file_path) ==
  IF response.json = NoJson
  THEN Return_(FileAnalysisResult(file_path, None,
                                  ParseTextResponse(agent, response.text), 0))
  ELSE LET structured == ParseStructured(agent, response.json)
       IN IF structured.ok
          THEN Return_(FileAnalysisResult(file_path, None,
                                          structured.value, 0))
          ELSE IF structured.exc \in {"JSONDecodeError", "KeyError"}
          THEN Return_(FileAnalysisResult(file_path, None,
                         ParseTextResponse(agent, response.text), 0))
          ELSE structured

\* the extension of the file paths of the model
Extension(file_path) ==
  CASE file_path \in {"a.py", "b.py"} -> ".py"
    [] file_path = "app.js" -> ".js"
    [] OTHER -> ""

\* BaseAgent._detect_language, for the extensions of the model
DetectLanguage(file_path) ==
  CASE Extension(file_path) = ".py" -> "python"
    [] Extension(file_path) = ".js" -> "javascript"
    [] OTHER -> "unknown"

\* the try block of analyze_file
AnalyzeFileTry(u) ==
  LET language == IF u.language # None THEN u.language[1]
                  ELSE DetectLanguage(u.file_path)
  IN IF u.backend.kind # "content" THEN Raise(u.backend.kind)
     ELSE LET parsed == ParseAnalysisResult(u.agent, u.backend, u.file_path)
          IN IF ~parsed.ok THEN parsed
             ELSE Return_([parsed.value EXCEPT
                             !.processing_time = u.elapsed,
                             !.language = Some(language)])

\* variant: without the except clause
AnalyzeFileNoExcept(u) == AnalyzeFileTry(u)

\* BaseAgent.analyze_file: except Exception returns a result without issues
AnalyzeFile(u) ==
  LET tried == AnalyzeFileTry(u)
  IN IF tried.ok THEN tried
     ELSE Return_(FileAnalysisResult(u.file_path, u.language, <<>>,
                                     u.elapsed))

(* ---------------- inputs of the agents ---------------- *)

\* longest "issues" list of a structured response in the model
MaxIssues == 2
\* largest number of lines of a response that hold a phrase of some pattern
MaxLines == 1

\* elements of "issues": complete with a capitalised severity, without
\* severity, with an unknown severity, with severity null, and a string
\* instead of an object
IssueData ==
  { JDict([type |-> JStr("naming"), line |-> JNum(5),
           severity |-> JStr("Low"), description |-> JStr("Line too long"),
           suggestion |-> JStr("Break line"),
           confidence_score |-> JNum(90)]),
    JDict([line |-> JNum(3), description |-> JStr("unchecked input")]),
    JDict([severity |-> JStr("severe")]),
    JDict([line |-> JNum(9), severity |-> JNull]),
    JStr("line 7 is too long") }

SeqsUpTo(S, n) == UNION {[1..k -> S] : k \in 0..n}

\* what re.search and json.loads make of the response: no {...} at all,
\* text that is not JSON, or an object
JsonParts ==
  {NoJson, InvalidJson}
    \cup {JDict([summary |-> JStr("fine")])}
    \cup {JDict([issues |-> JList(items)]) : items \in SeqsUpTo(IssueData, MaxIssues)}
    \cup {JDict([issues |-> JNull]), JDict([issues |-> JStr("none found")])}

\* the lines of a response that some pattern of some agent matches
TextLines ==
  { [line |-> Some(7), phrase |-> "too long"],
    [line |-> None, phrase |-> "too long"],
    [line |-> Some(7), phrase |-> "null pointer"],
    [line |-> Some(7), phrase |-> "sql injection"],
    [line |-> None, phrase |-> "api key"],
    [line |-> Some(7), phrase |-> "memory leak"] }

Backends ==
  {[kind |-> "error"], [kind |-> "timeout"]}
    \cup {[kind |-> "content", json |-> j, text |-> x] :
            j \in JsonParts, x \in SeqsUpTo(TextLines, MaxLines)}

\* timeout of one request to the backend, in seconds
timeout == 60

\* time.time() - start_time of a call, in seconds
Elapsed == {1, timeout + 1}

\* the calls of analyze_file of the model; a timed out call took longer than
\* the timeout, an answered one may have (the client repeats a request)
Units ==
  {u \in [agent : AnalysisTypes, file_path : {"a.py", "notes"},
          language : {None, Some("python")}, backend : Backends,
          elapsed : Elapsed] :
     u.backend.kind = "timeout" => u.elapsed > timeout}

\* one agent about to analyse one unit
AgentInit ==
  /\ db = [t \in {} |-> AnalysisTask]
  /\ pc = [t \in TaskIds |-> "none"]
  /\ retries = [t \in TaskIds |-> 0]
  /\ exc = [t \in TaskIds |-> None]
  /\ files = [t \in TaskIds |-> 0]
  /\ done = [t \in TaskIds |-> 0]
  /\ soft = [t \in TaskIds |-> FALSE]
  /\ now = 0
  /\ runs = [t \in TaskIds |-> 0]
  /\ allFatal = [t \in TaskIds |-> TRUE]
  /\ stored = [t \in TaskIds |-> TRUE]
  /\ resp = NoResp
  /\ unit \in {Some(u) : u \in Units}
  /\ result = None
  /\ session = None
  /\ job = None
  /\ cache = NoEntries

\* await agent.analyze_file(...)
AnalyzeFileCall ==
  /\ unit # None
  /\ result = None
  /\ result' = Some(AnalyzeFile(unit[1]))
  /\ UNCHANGED <<db, pc, retries, exc, files, done, soft, now, runs, allFatal, stored, resp, unit, session, job, cache>>

AgentNext == AnalyzeFileCall

AgentSpec == AgentInit /\ [][AgentNext]_vars

(* ---------------- FileAnalysisResult.get_issue_summary ---------------- *)

\* variant: the count is set to one, not incremented
CountIssueOnce(summary, issue) ==
  [summary EXCEPT ![issue.severity] = 1]

\* summary[issue.severity.value] += 1
CountIssue(summary, issue) ==
  [summary EXCEPT ![issue.severity] = @ + 1]

\* for issue in self.issues: ...
RECURSIVE CountIssues(_, _)
CountIssues(summary, issues) ==
  IF issues = <<>> THEN summary
  ELSE CountIssues(CountIssue(summary, Head(issues)), Tail(issues))

\* get_issue_summary: a zero for every IssueSeverity, then the loop
GetIssueSummary(file_result) ==
  CountIssues([severity \in Severities |-> 0], file_result.issues)

\* result.get_issue_summary() on the result an agent returned
GetIssueSummaryCall ==
  /\ result # None
  /\ result[1].ok
  /\ resp = NoResp
  /\ resp' = [op |-> "get_issue_summary",
              summary |-> GetIssueSummary(result[1].value)]
  /\ UNCHANGED <<db, pc, retries, exc, files, done, soft, now, runs, allFatal, stored, unit, result, session, job, cache>>

\* an agent analyses a unit and the summary of its result is taken
SummaryNext ==
  \/ AnalyzeFileCall
  \/ GetIssueSummaryCall

SummarySpec == AgentInit /\ [][SummaryNext]_vars

(* ---------------- a request followed to its execution ---------------- *)

\* the requests of the model: analysis_types absent, empty or a list of
\* type names, with or without a token
Requests ==
  [analysis_types : {None} \cup {Some(l) : l \in SeqsUpTo(AnalysisTypes, MaxTypes)},
   github_token : {None, Some("token")}]

\* one request is about to be submitted
RequestInit ==
  /\ db = [t \in {} |-> AnalysisTask]
  /\ pc = [t \in TaskIds |-> "none"]
  /\ retries = [t \in TaskIds |-> 0]
  /\ exc = [t \in TaskIds |-> None]
  /\ files = [t \in TaskIds |-> 0]
  /\ done = [t \in TaskIds |-> 0]
  /\ soft = [t \in TaskIds |-> FALSE]
  /\ now = 0
  /\ runs = [t \in TaskIds |-> 0]
  /\ allFatal = [t \in TaskIds |-> TRUE]
  /\ stored = [t \in TaskIds |-> TRUE]
  /\ resp = NoResp
  /\ unit = None
  /\ result = None
  /\ session = None
  /\ job \in {Some([request |-> r, kwargs |-> None, analysis_types |-> None]) :
                r \in Requests}
  /\ cache = NoEntries

\* the request is submitted and its execution starts; an execution that
\* fails is sent again with the same arguments
RequestNext ==
  \/ \E t \in TaskIds : Submit(t)
  \/ \E t \in TaskIds : StartAttempt(t)
  \/ \E t \in TaskIds : RaiseFatal(t)
  \/ \E t \in TaskIds : MarkFailed(t)
  \/ \E t \in TaskIds : Retry(t)

RequestSpec == RequestInit /\ [][RequestNext]_vars

(* ---------------- the vector cache and its cleanup ---------------- *)

\* largest number of cache entries in the model
MaxEntries == 3

\* the day on which the model's cleanup runs
Today == 31

\* default of the days_old parameter of cleanup_cache
DefaultDaysOld == 30

\* the entries of the model and the days on which one was last used at the
\* start: 31, 30 and 29 days before Today
EntryIds == 1..MaxEntries
Days == {Today - 31, Today - 30, Today - 29}

\* how long ago, in days, the entry was last used
Age(entries, e) == Today - entries[e]

\* variant: an entry exactly days_old days old is removed as well
OldEntriesInclusive(entries, days_old) ==
  {e \in DOMAIN entries : Age(entries, e) >= days_old}

\* the entries cleanup_old_entries removes: last used more than days_old
\* days ago
OldEntries(entries, days_old) ==
  {e \in DOMAIN entries : Age(entries, e) > days_old}

\* vector_cache.cleanup_old_entries(days_old): the entries left and the
\* number removed
CleanupOldEntries(entries, days_old) ==
  [entries |-> [e \in DOMAIN entries \ OldEntries(entries, days_old) |->
                  entries[e]],
   removed_count |-> Cardinality(OldEntries(entries, days_old))]

\* a vector cache with some entries
CacheInit ==
  /\ db = [t \in {} |-> AnalysisTask]
  /\ pc = [t \in TaskIds |-> "none"]
  /\ retries = [t \in TaskIds |-> 0]
  /\ exc = [t \in TaskIds |-> None]
  /\ files = [t \in TaskIds |-> 0]
  /\ done = [t \in TaskIds |-> 0]
  /\ soft = [t \in TaskIds |-> FALSE]
  /\ now = 0
  /\ runs = [t \in TaskIds |-> 0]
  /\ allFatal = [t \in TaskIds |-> TRUE]
  /\ stored = [t \in TaskIds |-> TRUE]
  /\ resp = NoResp
  /\ unit = None
  /\ result = None
  /\ session = None
  /\ job = None
  /\ cache \in UNION {[ids -> Days] : ids \in SUBSET EntryIds}

\* POST /admin/cache/cleanup
CleanupCache(days_old) ==
  /\ cache' = CleanupOldEntries(cache, days_old).entries
  /\ resp' = Ok("cleanup_cache", None,
                [removed_entries |-> CleanupOldEntries(cache, days_old).removed_count,
                 days_threshold |-> days_old])
  /\ UNCHANGED <<db, pc, retries, exc, files, done, soft, now, runs, allFatal, stored, unit, result, session, job>>

\* a lookup is served from an entry, which refreshes its last use
RecordHit(e) ==
  /\ e \in DOMAIN cache
  /\ cache[e] # Today
  /\ cache' = [cache EXCEPT ![e] = Today]
  /\ resp' = NoResp
  /\ UNCHANGED <<db, pc, retries, exc, files, done, soft, now, runs, allFatal, stored, unit, result, session, job>>

CacheNext ==
  \/ \E days_old \in {DefaultDaysOld - 1, DefaultDaysOld, DefaultDaysOld + 1} :
       CleanupCache(days_old)
  \/ \E e \in EntryIds : RecordHit(e)

CacheSpec == CacheInit /\ [][CacheNext]_vars

(* ------- one _update_task_status call, assignment by assignment ------- *)

\* the keyword arguments of a call of _update_task_status
UpdateCall(status, results, error_message, started_at, completed_at, current_file, processed_files, total_files) ==
  [status |-> status, results |-> results, error_message |-> error_message,
   started_at |-> started_at, completed_at |-> completed_at,
   current_file |-> current_file, processed_files |-> processed_files,
   total_files |-> total_files]

\* the calls the task makes: the start update, the progress updates of the
\* callback, the completed update and the failed update
UpdateCalls(t) ==
  {UpdateCall(PROCESSING, None, None, Some(t), None, None, None, None)}
    \cup UNION {{UpdateCall(PROCESSING, None, None, None, None,
                            ProgressKwargs(k, n).current_file,
                            ProgressKwargs(k, n).processed_files,
                            ProgressKwargs(k, n).total_files) :
                   k \in 1..n} : n \in 1..MaxUnits}
    \cup {UpdateCall(COMPLETED, AggregatedResults(n), None, None, Some(t),
                     None, None, None) : n \in 0..MaxUnits}
    \cup {UpdateCall(FAILED, None, Some(e), None, Some(t), None, None, None) :
            e \in Errors \cup {SoftTimeLimitExceeded}}

\* the optional arguments in the order of the "is not None" tests
OptionalColumns ==
  <<"results", "error_message", "started_at", "completed_at", "current_file",
    "processed_files", "total_files">>

\* the columns a call assigns, in the order of the assignments
RECURSIVE Given(_, _)
Given(call, columns) ==
  IF columns = <<>> THEN <<>>
  ELSE (IF call[Head(columns)] # None THEN <<Head(columns)>> ELSE <<>>)
       \o Given(call, Tail(columns))

AssignedColumns(call) == <<"status", "updated_at">> \o Given(call, OptionalColumns)

\* task.<column> = ... : one assignment to the object of the session
Assign(task, call, column, t) ==
  [task EXCEPT ![column] =
     CASE column = "status" -> call.status
       [] column = "updated_at" -> Some(t)
       [] column \in {"processed_files", "total_files"} -> call[column][1]
       [] OTHER -> call[column]]

\* the whole "if task:" body for the arguments of a call
ApplyCall(task, call, t) ==
  ApplyUpdate(task, call.status, call.results, call.error_message,
              call.started_at, call.completed_at, call.current_file,
              call.processed_files, call.total_files, t)

\* with get_db_session() as db: the row is queried and found
UpdateOpen(t) ==
  /\ session = None
  /\ t \in DOMAIN db
  /\ \E call \in UpdateCalls(now) :
       session' = Some([task_id |-> t, call |-> call, row |-> db[t],
                        todo |-> AssignedColumns(call)])
  /\ resp' = NoResp
  /\ UNCHANGED <<db, pc, retries, exc, files, done, soft, now, runs, allFatal, stored, unit, result, job, cache>>

\* the next assignment; it changes the object of the session only
UpdateAssign ==
  /\ session # None
  /\ session[1].todo # <<>>
  /\ session' = Some([session[1] EXCEPT
                        !.row = Assign(@, session[1].call,
                                       Head(session[1].todo), now),
                        !.todo = Tail(@)])
  /\ resp' = NoResp
  /\ UNCHANGED <<db, pc, retries, exc, files, done, soft, now, runs, allFatal, stored, unit, result, job, cache>>

\* db.commit(): every assigned column is written in one transaction
UpdateCommit ==
  /\ session # None
  /\ session[1].todo = <<>>
  /\ db' = [db EXCEPT ![session[1].task_id] = session[1].row]
  /\ session' = None
  /\ resp' = NoResp
  /\ UNCHANGED <<pc, retries, exc, files, done, soft, now, runs, allFatal, stored, unit, result, job, cache>>

\* an exception inside the with block: the session is discarded, the
\* exception logged and swallowed
UpdateRollback ==
  /\ session # None
  /\ session' = None
  /\ resp' = NoResp
  /\ UNCHANGED <<db, pc, retries, exc, files, done, soft, now, runs, allFatal, stored, unit, result, job, cache>>

\* updates of the task, taken assignment by assignment, with status queries
\* in between
SessionNext ==
  \/ \E t \in TaskIds : Submit(t)
  \/ \E t \in TaskIds : UpdateOpen(t)
  \/ UpdateAssign
  \/ UpdateCommit
  \/ UpdateRollback
  \/ \E id \in QueryIds : StatusQuery(id)

SessionSpec == Init /\ [][SessionNext]_vars

(* ---------------- admin health check (app/api/admin.py) ---------------- *)

\* str() of the exceptions a component call can raise
ComponentErrors == {"ConnectionError", "TimeoutError"}

\* redis_client.ping(): a truth value, or an exception
PingOutcomes ==
  {Return_(TRUE), Return_(FALSE)} \cup {Raise(e) : e \in ComponentErrors}

\* GitHubService().health_check(): a dict that reports a status, one with a
\* status of its own, one without a status, or an exception
GithubHealthOutcomes ==
  {Return_([status |-> "healthy"]),
   Return_([status |-> "unhealthy", error |-> "HTTP 503"]),
   Return_([status |-> "rate_limited"]),
   Return_([error |-> "HTTP 503"])}
    \cup {Raise(e) : e \in ComponentErrors}

\* vector_cache.get_cache_statistics(): the statistics of the entries, a dict
\* without the two keys, or an exception
CacheStatisticsOutcomes(entries) ==
  {Return_([total_entries |-> Cardinality(DOMAIN entries), hit_rate |-> "75%"]),
   Return_([reason |-> "no statistics"])}
    \cup {Raise(e) : e \in ComponentErrors}

\* health_status["components"]["redis"]
RedisComponent(ping) ==
  IF ping.ok
  THEN [status |-> IF ping.value THEN "healthy" ELSE "unhealthy",
        response_time |-> "< 1ms"]
  ELSE [status |-> "unhealthy", error |-> ping.exc]

\* health_status["components"]["github"]
GithubComponent(github_health) ==
  IF github_health.ok THEN github_health.value
  ELSE [status |-> "unhealthy", error |-> github_health.exc]

\* health_status["components"]["vector_cache"]
VectorCacheComponent(cache_stats) ==
  IF cache_stats.ok
  THEN [status |-> "healthy",
        total_entries |-> Get(cache_stats.value, "total_entries", 0),
        hit_rate |-> Get(cache_stats.value, "hit_rate", "0%")]
  ELSE [status |-> "unhealthy", error |-> cache_stats.exc]

\* variant: any() is tested before all()
OverallStatusAnyFirst(component_statuses) ==
  IF \E i \in DOMAIN component_statuses : component_statuses[i] = "healthy"
  THEN "degraded"
  ELSE IF \A i \in DOMAIN component_statuses : component_statuses[i] = "healthy"
  THEN "healthy"
  ELSE "unhealthy"

\* "Determine overall status": all(...), elif any(...), else
OverallStatus(component_statuses) ==
  IF \A i \in DOMAIN component_statuses : component_statuses[i] = "healthy"
  THEN "healthy"
  ELSE IF \E i \in DOMAIN component_statuses : component_statuses[i] = "healthy"
  THEN "degraded"
  ELSE "unhealthy"

\* the dict detailed_health_check returns
HealthStatus(ping, github_health, cache_stats) ==
  LET components == [redis |-> RedisComponent(ping),
                     github |-> GithubComponent(github_health),
                     vector_cache |-> VectorCacheComponent(cache_stats)]
      component_statuses ==
        <<Get(components.redis, "status", "unhealthy"),
          Get(components.github, "status", "unhealthy"),
          Get(components.vector_cache, "status", "unhealthy")>>
  IN [api |-> "healthy", components |-> components,
      status |-> OverallStatus(component_statuses)]

\* GET /admin/health
DetailedHealthCheck ==
  /\ \E ping \in PingOutcomes, github_health \in GithubHealthOutcomes,
        cache_stats \in CacheStatisticsOutcomes(cache) :
       resp' = Ok("detailed_health_check", None,
                  HealthStatus(ping, github_health, cache_stats))
  /\ UNCHANGED <<db, pc, retries, exc, files, done, soft, now, runs, allFatal, stored, unit, result, session, job, cache>>

\* health checks of a system whose cache holds some entries
HealthNext == DetailedHealthCheck

HealthSpec == CacheInit /\ [][HealthNext]_vars

(* ---------------- several jobs on the worker pool ---------------- *)

\* the jobs of the model that run side by side
JobIds == {"t1", "t2"}

\* nothing submitted yet, two task ids to be used
ConcurrentInit ==
  /\ db = [t \in {} |-> AnalysisTask]
  /\ pc = [t \in JobIds |-> "none"]
  /\ retries = [t \in JobIds |-> 0]
  /\ exc = [t \in JobIds |-> None]
  /\ files = [t \in JobIds |-> 0]
  /\ done = [t \in JobIds |-> 0]
  /\ soft = [t \in JobIds |-> FALSE]
  /\ now = 0
  /\ runs = [t \in JobIds |-> 0]
  /\ allFatal = [t \in JobIds |-> TRUE]
  /\ stored = [t \in JobIds |-> TRUE]
  /\ resp = NoResp
  /\ unit = None
  /\ result = None
  /\ session = None
  /\ job = None
  /\ cache = NoEntries

\* one execution of each job, the steps of the two interleaved: submission
\* and the four kinds of update, without time limits and retries
ConcurrentNext ==
  \/ \E t \in JobIds : Submit(t)
  \/ \E t \in JobIds : StartAttempt(t)
  \/ \E t \in JobIds : Resolve(t)
  \/ \E t \in JobIds : UnitDone(t)
  \/ \E t \in JobIds : Aggregate(t)
  \/ \E t \in JobIds : Complete(t)
  \/ \E t \in JobIds : RaiseFatal(t)
  \/ \E t \in JobIds : MarkFailed(t)

ConcurrentSpec == ConcurrentInit /\ [][ConcurrentNext]_vars

(* ---------------- updates for ids with and without a record ----------- *)

\* the exception the with block of _update_task_status raises, if any:
\* a store failure raises, a missing row takes the else branch and only
\* logs a warning
UpdateBodyException(storeOk, table, task_id) ==
  IF ~storeOk THEN Some("OperationalError") ELSE None

\* the exception that leaves _update_task_status: "except Exception" logs
\* whatever the body raised and the function returns
UpdateException(storeOk, table, task_id) ==
  LET raised == UpdateBodyException(storeOk, table, task_id)
  IN IF raised = None THEN None  \* the with block ended normally
     ELSE None                   \* except Exception as e: logger.error(...)

\* one call of _update_task_status for any id, as a call of its own: the
\* worker runs the task for whatever task_id the message carries
UpdateTaskStatusCall(id) ==
  /\ \E storeOk \in BOOLEAN, call \in UpdateCalls(now) :
       /\ db' = UpdateTaskStatus(storeOk, db, id, call.status, call.results,
                                 call.error_message, call.started_at,
                                 call.completed_at, call.current_file,
                                 call.processed_files, call.total_files, now)
       /\ resp' = [op |-> "_update_task_status", task_id |-> id,
                   status |-> call.status,
                   raised |-> UpdateException(storeOk, db, id)]
  /\ UNCHANGED <<pc, retries, exc, files, done, soft, now, runs, allFatal, stored, unit, result, session, job, cache>>

\* submissions, and updates issued for the submitted id and for an id that
\* has no record
OrphanNext ==
  \/ \E t \in TaskIds : Submit(t)
  \/ \E id \in QueryIds : UpdateTaskStatusCall(id)

OrphanSpec == Init /\ [][OrphanNext]_vars

TypeOK ==
  /\ DOMAIN db \subseteq TaskIds
  /\ \A t \in DOMAIN db : db[t].status \in TaskStatus
  /\ now \in 0..MaxClock

(* ======================= properties ======================= *)

Terminal == {COMPLETED, FAILED}

\* a step of task t that is one call of _update_task_status, by call site
IsStartUpdate(t) == pc[t] = "queued" /\ pc'[t] = "resolve"
IsProgressUpdate(t) == pc[t] = "run" /\ done'[t] # done[t]
IsCompletedUpdate(t) == pc[t] = "finish" /\ pc'[t] = "committed"
IsFailedUpdate(t) == pc[t] = "handler" /\ pc'[t] = "failed"

\* C1: once the stored status is COMPLETED or FAILED no step changes it.
C1_TerminalIsFinal ==
  [][\A t \in DOMAIN db :
       db[t].status \in Terminal => db'[t].status = db[t].status]_vars

C3_ResultsIffCompleted ==
  \A t \in DOMAIN db : (db[t].results # None) <=> (db[t].status = COMPLETED)

\* C4: error_message is non-null exactly when the status is FAILED.
C4_ErrorIffFailed ==
  \A t \in DOMAIN db : (db[t].error_message # None) <=> (db[t].status = FAILED)

\* C5: the status only moves pending -> processing -> completed | failed.
C5_StatusPath ==
  [][\A t \in DOMAIN db :
       db'[t].status # db[t].status =>
         <<db[t].status, db'[t].status>> \in
           {<<PENDING, PROCESSING>>, <<PROCESSING, COMPLETED>>,
            <<PROCESSING, FAILED>>}]_vars

\* C6: every job the runner has started eventually has a status of
\* COMPLETED or FAILED that it keeps forever.
C6_EventuallyTerminal ==
  \A t \in TaskIds :
    [](runs[t] > 0 => <>[](t \in DOMAIN db /\ db[t].status \in Terminal))

\* C7: the stored processed_files never decreases over the life of a job.
C7_ProcessedMonotonic ==
  [][\A t \in DOMAIN db :
       db'[t].processed_files >= db[t].processed_files]_vars

\* C8: processed_files <= total_files in every state of a job record.
C8_ProcessedLeTotal ==
  \A t \in DOMAIN db : db[t].processed_files <= db[t].total_files

C8_Witness ==
  \E t \in DOMAIN db :
    /\ pc[t] = "run" /\ runs[t] > 1
    /\ db[t].processed_files = 1 /\ db[t].total_files = 1
    /\ files[t] = 1 /\ done[t] = 1

\* C9: an update writes status, updated_at and the columns it is passed and
\* nothing else; a step that is no update changes no column at all.
C9_UpdateFrame ==
  [][\A t \in DOMAIN db :
       /\ IsStartUpdate(t) =>
            /\ db'[t].results = db[t].results
            /\ db'[t].error_message = db[t].error_message
            /\ db'[t].completed_at = db[t].completed_at
            /\ db'[t].current_file = db[t].current_file
            /\ db'[t].processed_files = db[t].processed_files
            /\ db'[t].total_files = db[t].total_files
       /\ IsProgressUpdate(t) =>
            /\ db'[t].results = db[t].results
            /\ db'[t].error_message = db[t].error_message
            /\ db'[t].started_at = db[t].started_at
            /\ db'[t].completed_at = db[t].completed_at
       /\ IsCompletedUpdate(t) =>
            /\ db'[t].error_message = db[t].error_message
            /\ db'[t].started_at = db[t].started_at
            /\ db'[t].current_file = db[t].current_file
            /\ db'[t].processed_files = db[t].processed_files
            /\ db'[t].total_files = db[t].total_files
       /\ IsFailedUpdate(t) =>
            /\ db'[t].results = db[t].results
            /\ db'[t].started_at = db[t].started_at
            /\ db'[t].current_file = db[t].current_file
            /\ db'[t].processed_files = db[t].processed_files
            /\ db'[t].total_files = db[t].total_files
       /\ ~(IsStartUpdate(t) \/ IsProgressUpdate(t) \/ IsCompletedUpdate(t)
            \/ IsFailedUpdate(t)) => db'[t] = db[t]]_vars

\* a completed job that kept the progress of its units, the error of an
\* earlier attempt and its start time through the later updates
C9_Witness ==
  \E t \in DOMAIN db :
    /\ db[t].status = COMPLETED /\ stored[t] /\ pc[t] = "committed"
    /\ db[t].processed_files = 2 /\ db[t].total_files = 2
    /\ db[t].current_file = Some("b.py")
    /\ db[t].error_message = Some("SourceUnavailable")
    /\ db[t].started_at # None

\* C10: a progress update leaves the status as it was.
C10_ProgressKeepsStatus ==
  [][\A t \in DOMAIN db :
       IsProgressUpdate(t) => db'[t].status = db[t].status]_vars

\* C11: when the store is unavailable for an update of the runner, the
\* attempt does not go on in its try block or return as if it was stored.
C11_StoreFailureIsFatal ==
  \A t \in TaskIds : ~stored[t] => pc[t] \notin InTry \cup {"succeeded"}

\* what C12 says of a response of getResults, given the row it was read from
ResultsAnswerMatches ==
  LET id == resp.task_id IN
    /\ resp.code = 404 <=> id \notin DOMAIN db
    /\ resp.code = 400 <=> (id \in DOMAIN db /\ db[id].status # COMPLETED)
    /\ (id \in DOMAIN db /\ db[id].status = COMPLETED) =>
         /\ resp.code = 200
         /\ resp.body.files = db[id].results[1].files
         /\ resp.body.summary = db[id].results[1].summary

\* C12 as stated: getResults answers NotFound exactly for an unknown id,
\* NotReady exactly for a job that is not COMPLETED, the results otherwise.
C12_ResultsTrichotomy ==
  resp.op = "results" => ResultsAnswerMatches

\* C12 amended: the same, unless the query of the store raises, which is
\* answered with an internal error.
C12_ResultsUnlessStoreFails ==
  resp.op = "results" =>
    /\ resp.code \in {200, 400, 404, 500}
    /\ resp.code # 500 => ResultsAnswerMatches

C12_Witness ==
  /\ resp.op = "results" /\ resp.code = 200
  /\ resp.body.files = <<"a.py", "b.py">>
  /\ resp.body.metadata = <<>>

\* what C13 says of a response of getStatus, given the row it was read from
StatusAnswerMatches ==
  LET id == resp.task_id IN
    /\ id \notin DOMAIN db => resp.code = 404
    /\ id \in DOMAIN db =>
         /\ resp.code = 200
         /\ resp.body.status = db[id].status
         /\ resp.body.processed_files = db[id].processed_files
         /\ resp.body.total_files = db[id].total_files
         /\ resp.body.current_file = db[id].current_file
         /\ db[id].total_files = 0 => resp.body.progress.percentage = 0
         /\ db[id].total_files > 0 =>
              LET d == resp.body.progress.percentage * db[id].total_files
                         - 10000 * db[id].processed_files
              IN 2 * d <= db[id].total_files /\ -2 * d <= db[id].total_files

\* C13 as stated: getStatus answers NotFound for an id never submitted and
\* status and progress for every submitted id, in every state of the job.
C13_StatusAlwaysAnswers ==
  resp.op = "status" => StatusAnswerMatches

\* C13 amended: the same, unless the query of the store raises, which is
\* answered with an internal error.
C13_StatusUnlessStoreFails ==
  resp.op = "status" =>
    /\ resp.code \in {200, 404, 500}
    /\ resp.code # 500 => StatusAnswerMatches

C13_Witness ==
  /\ resp.op = "status" /\ resp.code = 200 /\ resp.task_id \in DOMAIN db
  /\ db[resp.task_id].total_files = 0
  /\ resp.body.status = PROCESSING /\ resp.body.progress.percentage = 0

\* C14 as stated: submit always succeeds, with a PENDING record for the
\* returned id and one execution enqueued.
C14_SubmitAlwaysSucceeds ==
  resp.op = "analyze_pr" =>
    /\ resp.code = 200
    /\ resp.task_id \in DOMAIN db
    /\ db[resp.task_id].status = PENDING
    /\ pc[resp.task_id] = "queued"

\* C14 amended: submit succeeds unless the commit or the enqueueing raises
\* (answered with 500); when it succeeds the id is fresh, its record exists
\* and is PENDING, and one execution of it has been enqueued.
C14_SubmitSucceedsOrFails ==
  [][resp'.op = "analyze_pr" =>
       /\ resp'.code \in {200, 500}
       /\ resp'.code = 200 =>
            LET t == resp'.task_id IN
              /\ t \notin DOMAIN db /\ pc[t] = "none"
              /\ t \in DOMAIN db'
              /\ db'[t].status = PENDING /\ resp'.body.status = PENDING
              /\ pc'[t] = "queued" /\ runs'[t] = 0]_vars

C14_Witness ==
  /\ resp.op = "analyze_pr" /\ resp.code = 200
  /\ resp.task_id \in DOMAIN db /\ pc[resp.task_id] = "queued"

\* C15: when all attempts are used and the job is FAILED, error_message is
\* the error of the last attempt.
C15_LastErrorStored ==
  \A t \in DOMAIN db :
    pc[t] = "exhausted" /\ db[t].status = FAILED =>
      db[t].error_message = exc[t]

(* ---------------- analysis agents: properties ---------------- *)

\* the call of analyze_file has returned or raised
Analyzed == unit # None /\ result # None

\* the structured branch of parse_analysis_result on the unit's response
StructuredOf(u) ==
  IF u.backend.json = NoJson THEN Raise("NoJson")
  ELSE ParseStructured(u.agent, u.backend.json)

\* the call failed: the backend raised or timed out, or parsing raised
CallFailed(u) ==
  \/ u.backend.kind # "content"
  \/ ~ParseAnalysisResult(u.agent, u.backend, u.file_path).ok

\* C16: analyze_file never raises: for every backend outcome it returns a
\* result for the requested file, and after any failure (backend error,
\* timeout, exception while parsing) that result has no findings.
C16_AnalyzeFileAlwaysReturns ==
  Analyzed =>
    /\ result[1].ok
    /\ result[1].value.file_path = unit[1].file_path
    /\ (CallFailed(unit[1]) => result[1].value.issues = <<>>)

\* C16 witness: the parser raised on a response whose text held matches, and
\* analyze_file returned an empty result for the file
C16_Witness ==
  /\ Analyzed
  /\ unit[1].backend.kind = "content"
  /\ ~ParseAnalysisResult(unit[1].agent, unit[1].backend, unit[1].file_path).ok
  /\ unit[1].backend.text # <<>>
  /\ result[1].ok
  /\ result[1].value.issues = <<>>

\* C17: whenever structured extraction fails (no JSON, invalid JSON, JSON of
\* the wrong shape) the findings of the heuristic pass are the result, and
\* when it succeeds the structured findings are the result.
C17_HeuristicsIffStructuredFails ==
  (Analyzed /\ unit[1].backend.kind = "content") =>
    /\ result[1].ok
    /\ result[1].value.issues =
         IF StructuredOf(unit[1]).ok THEN StructuredOf(unit[1]).value
         ELSE ParseTextResponse(unit[1].agent, unit[1].backend.text)

\* C18: the result returned after a backend timeout differs from every
\* result the same call returns when the backend answers and parsing
\* succeeds, so a timeout can be told from a clean file.
C18_TimeoutDistinguishable ==
  (Analyzed /\ unit[1].backend.kind = "timeout") =>
    \A b \in Backends :
      LET u == [unit[1] EXCEPT !.backend = b]
      IN (b.kind = "content" /\ AnalyzeFileTry(u).ok)
           => AnalyzeFile(u) # result[1]

\* C19: every finding of a returned result has a severity among critical,
\* high, medium and low; a structured finding whose severity was omitted is
\* high for the security agent and medium for the other three.
C19_SeverityAlwaysKnown ==
  (Analyzed /\ result[1].ok) =>
    LET u == unit[1]
        issues == result[1].value.issues
    IN /\ \A i \in DOMAIN issues :
            issues[i].severity \in {"critical", "high", "medium", "low"}
       /\ (u.backend.kind = "content" /\ StructuredOf(u).ok) =>
            \A i \in DOMAIN issues :
              "severity" \notin DOMAIN u.backend.json.d.issues.items[i].d =>
                issues[i].severity =
                  IF u.agent = "security" THEN "high" ELSE "medium"

\* C19 witness: the security agent returned a structured finding whose
\* severity the backend had omitted, and one with a severity it does not know
C19_Witness ==
  /\ Analyzed
  /\ result[1].ok
  /\ unit[1].agent = "security"
  /\ unit[1].backend.kind = "content"
  /\ StructuredOf(unit[1]).ok
  /\ \E i, j \in DOMAIN result[1].value.issues :
       /\ "severity" \notin DOMAIN unit[1].backend.json.d.issues.items[i].d
       /\ result[1].value.issues[i].severity = "high"
       /\ unit[1].backend.json.d.issues.items[j] = JDict([severity |-> JStr("severe")])
       /\ result[1].value.issues[j].severity = "medium"

(* ---------------- serialized updates: properties ---------------- *)

\* the terminal update of the running attempt has been issued
TerminalIssued(t) == pc[t] \in {"committed", "failed"}

\* C20: updates to one job's record are serialized: within an attempt no
\* progress update follows the terminal update, every update leaves what it
\* wrote in the record, and after the completed update of an attempt no
\* later write of that attempt replaces the terminal status.
C20_UpdatesSerialized ==
  [][\A t \in TaskIds \cap DOMAIN db :
       /\ TerminalIssued(t) =>
            /\ ~IsProgressUpdate(t)
            /\ db'[t].processed_files = db[t].processed_files
       /\ IsStartUpdate(t) => db'[t].status = PROCESSING
       /\ IsProgressUpdate(t) =>
            db'[t].processed_files = done'[t] /\ db'[t].total_files = files[t]
       /\ IsCompletedUpdate(t) =>
            db'[t].status = COMPLETED /\ db'[t].results = AggregatedResults(files[t])
       /\ IsFailedUpdate(t) =>
            db'[t].status = FAILED /\ db'[t].error_message = exc[t]
       /\ (pc[t] \in InTry \cup InExcept /\ db[t].status = COMPLETED) =>
            db'[t].status = COMPLETED]_vars

(* ---------------- counters and timestamps: properties ---------------- *)

\* a job-level time limit has ended the running attempt of t: the soft limit
\* raised SoftTimeLimitExceeded in it, or the hard limit killed it
TimedOut(t) ==
  \/ pc[t] = "killed"
  \/ soft[t] /\ pc[t] \in InExcept \cup {"aborted"}

\* every unit of the job is counted in the stored record
AllCounted(t) ==
  t \in DOMAIN db /\ db[t].processed_files = db[t].total_files

\* C21: when the soft or the hard time limit ends an attempt, the stored
\* processed_files still reaches the stored total_files.
C21_TimeoutStillCountsAll ==
  \A t \in TaskIds : [](TimedOut(t) => <>AllCounted(t))

\* C22: whenever the stored status is COMPLETED the stored processed_files
\* equals the stored total_files.
C22_CompletedCountsAll ==
  \A t \in DOMAIN db :
    db[t].status = COMPLETED => db[t].processed_files = db[t].total_files

\* C23: started_at is null while the status is PENDING and non-null
\* whenever the status is PROCESSING, COMPLETED or FAILED.
C23_StartedAtIffStarted ==
  \A t \in DOMAIN db :
    (db[t].started_at = None) <=> (db[t].status = PENDING)

\* C24: completed_at is non-null exactly when the status is COMPLETED or
\* FAILED; a PENDING or PROCESSING record, also one that is PROCESSING in a
\* retry, has completed_at null.
C24_CompletedAtIffTerminal ==
  \A t \in DOMAIN db :
    (db[t].completed_at # None) <=> (db[t].status \in Terminal)

(* ---------------- who changes a record: properties ---------------- *)

\* C25: a stored record is changed only by an update of the runner: the
\* status and the results query leave every record as it is, and no step
\* removes a record.
C25_OnlyRunnerMutates ==
  [][/\ DOMAIN db \subseteq DOMAIN db'
     /\ resp'.op \in {"status", "results"} => db' = db
     /\ \A t \in DOMAIN db :
          db'[t] # db[t] =>
            \/ IsStartUpdate(t) \/ IsProgressUpdate(t)
            \/ IsCompletedUpdate(t) \/ IsFailedUpdate(t)]_vars

\* C25 witness: the results of a completed job have been returned and its
\* record is still stored, completed and with its results
C25_Witness ==
  /\ resp.op = "results" /\ resp.code = 200
  /\ resp.task_id \in DOMAIN db
  /\ db[resp.task_id].status = COMPLETED
  /\ db[resp.task_id].results = AggregatedResults(files[resp.task_id])

(* ---------------- consistent snapshots: properties ---------------- *)

\* C26: a status query that runs while an update of the same record is in
\* progress answers from the record as it was before the update or as it is
\* after the whole update, never from a record with part of the update's
\* assignments; what an update commits is the whole update.
C26_SnapshotIsWhole ==
  /\ (resp.op = "status" /\ resp.code = 200) =>
       \/ resp.body = TaskStatusResponse(db[resp.task_id], now)
       \/ /\ session # None
          /\ session[1].task_id = resp.task_id
          /\ resp.body =
               TaskStatusResponse(
                 ApplyCall(db[resp.task_id], session[1].call, now), now)
  /\ (session # None /\ session[1].todo = <<>>) =>
       session[1].row =
         ApplyCall(db[session[1].task_id], session[1].call, now)

\* C26 witness: a status query was answered while the completed update had
\* assigned the status but not yet the results, and the answer still shows
\* the status of the stored record
C26_Witness ==
  /\ resp.op = "status" /\ resp.code = 200
  /\ session # None
  /\ session[1].task_id = resp.task_id
  /\ session[1].call.status = COMPLETED
  /\ session[1].row.status = COMPLETED
  /\ \E i \in DOMAIN session[1].todo : session[1].todo[i] = "results"
  /\ db[resp.task_id].status = PROCESSING
  /\ resp.body.status = PROCESSING

(* ---------------- analysis types: properties ---------------- *)

\* C27: every execution of a submitted job runs with a non-empty list of
\* analysis types; when the request gives none (the field is absent or the
\* list is empty) the list is style, bug, security, performance.
C27_TypesNeverEmpty ==
  (job # None /\ job[1].analysis_types # None) =>
    /\ job[1].analysis_types[1] # <<>>
    /\ (job[1].request.analysis_types \in {None, Some(<<>>)}) =>
         job[1].analysis_types[1] = <<"style", "bug", "security", "performance">>
    /\ (job[1].request.analysis_types \notin {None, Some(<<>>)}) =>
         job[1].analysis_types[1] = job[1].request.analysis_types[1]

\* C27 witness: a request with an empty list of types has been submitted and
\* its second execution has started with the four types
C27_Witness ==
  /\ job # None
  /\ job[1].request.analysis_types = Some(<<>>)
  /\ job[1].analysis_types = Some(<<"style", "bug", "security", "performance">>)
  /\ \E t \in TaskIds : pc[t] = "resolve" /\ retries[t] = 1

(* ---------------- cache cleanup: properties ---------------- *)

WellFormed(json) ==
  /\ json.t = "dict"
  /\ "issues" \in DOMAIN json.d
  /\ json.d.issues.t = "list"
  /\ \A i \in DOMAIN json.d.issues.items :
       /\ json.d.issues.items[i].t = "dict"
       /\ "severity" \in DOMAIN json.d.issues.items[i].d =>
            json.d.issues.items[i].d.severity.t = "str"

\* C29: for a well-formed structured response with n issues the result has
\* exactly n findings in the order of the response, each with the type,
\* line, description, suggestion and confidence the response gives, and the
\* result's file path is the analysed path.
C29_StructuredFindingsVerbatim ==
  (Analyzed /\ unit[1].backend.kind = "content"
            /\ WellFormed(unit[1].backend.json)) =>
    LET items == unit[1].backend.json.d.issues.items
        issues == result[1].value.issues
    IN /\ result[1].ok
       /\ result[1].value.file_path = unit[1].file_path
       /\ Len(issues) = Len(items)
       /\ \A i \in DOMAIN items :
            \A field \in {"type", "line", "description", "suggestion",
                          "confidence_score"} :
              field \in DOMAIN items[i].d => issues[i][field] = items[i].d[field]

\* C29 witness: a response with two different issues was analysed and the
\* result lists both, in the order of the response
C29_Witness ==
  /\ Analyzed
  /\ unit[1].backend.kind = "content"
  /\ WellFormed(unit[1].backend.json)
  /\ Len(unit[1].backend.json.d.issues.items) = 2
  /\ result[1].ok
  /\ result[1].value.issues[1].line = JNum(5)
  /\ result[1].value.issues[1].suggestion = JStr("Break line")
  /\ result[1].value.issues[1].confidence_score = JNum(90)
  /\ result[1].value.issues[2].line = JNum(3)
  /\ result[1].value.issues[2].description = JStr("unchecked input")

\* the response holds no structured part the parser could use: no {...}, or
\* one that is not JSON
NoStructured(u) ==
  u.backend.kind = "content" /\ u.backend.json \in {NoJson, InvalidJson}

\* C30: every finding of the heuristic pass has the agent's own type and the
\* agent's fixed confidence (style 0.7, bug 0.75, security 0.8, performance
\* 0.7); when the structured and the heuristic pass both yield nothing the
\* result is an empty list of findings, not an error.
C30_HeuristicTypeAndConfidence ==
  (Analyzed /\ NoStructured(unit[1])) =>
    LET u == unit[1]
        issues == result[1].value.issues
    IN /\ result[1].ok
       /\ \A i \in DOMAIN issues :
            /\ issues[i].type = JStr(u.agent)
            /\ issues[i].confidence_score =
                 CASE u.agent = "style" -> JNum(70)
                   [] u.agent = "bug" -> JNum(75)
                   [] u.agent = "security" -> JNum(80)
                   [] u.agent = "performance" -> JNum(70)
       /\ (\A k \in DOMAIN u.backend.text :
             \A n \in DOMAIN PatternsOf(u.agent) :
               ~Matches(PatternsOf(u.agent)[n], u.backend.text[k]))
            => issues = <<>>

\* C30 witness: the bug agent got a response that is not JSON and mentions a
\* null pointer at line 7; the heuristic pass reported it
C30_Witness ==
  /\ Analyzed
  /\ unit[1].agent = "bug"
  /\ unit[1].backend.kind = "content"
  /\ unit[1].backend.json = InvalidJson
  /\ result[1].ok
  /\ Len(result[1].value.issues) = 1
  /\ result[1].value.issues[1].line = JNum(7)
  /\ result[1].value.issues[1].severity = "high"
  /\ result[1].value.issues[1].confidence_score = JNum(75)

(* ---------------- admin health check: properties ---------------- *)

\* the status a component of a health answer reports
ReportedStatus(body, component) ==
  IF "status" \in DOMAIN body.components[component]
  THEN body.components[component].status ELSE "unhealthy"

\* the components of a health answer that report "healthy"
HealthyComponents(body) ==
  {c \in DOMAIN body.components : ReportedStatus(body, c) = "healthy"}

\* C31: the admin health check always answers (no error response) and
\* always lists the three components redis, github and vector_cache; the
\* overall status is "healthy" exactly when all three are healthy,
\* "unhealthy" exactly when none is, and "degraded" otherwise.
C31_HealthCheckTotal ==
  resp.op = "detailed_health_check" =>
    /\ resp.code = 200
    /\ DOMAIN resp.body.components = {"redis", "github", "vector_cache"}
    /\ resp.body.status \in {"healthy", "unhealthy", "degraded"}
    /\ resp.body.status = "healthy" <=>
         Cardinality(HealthyComponents(resp.body)) = 3
    /\ resp.body.status = "unhealthy" <=>
         Cardinality(HealthyComponents(resp.body)) = 0
    /\ resp.body.status = "degraded" <=>
         Cardinality(HealthyComponents(resp.body)) \in {1, 2}

\* C31 witness: redis raised and github answered without a status, the
\* cache is up: the check still answers, with three components, "degraded"
C31_Witness ==
  /\ resp.op = "detailed_health_check"
  /\ resp.code = 200
  /\ resp.body.components.redis = [status |-> "unhealthy", error |-> "ConnectionError"]
  /\ resp.body.components.github = [error |-> "HTTP 503"]
  /\ resp.body.components.vector_cache.status = "healthy"
  /\ resp.body.components.vector_cache.total_entries = 2
  /\ resp.body.status = "degraded"

(* ---------------- submission and first update: properties -------------- *)

C33_RecordExistsAtFirstUpdate ==
  [][\A t \in TaskIds :
       (IsStartUpdate(t) /\ runs[t] = 0) =>
          /\ t \in DOMAIN db
          /\ db[t].status = PENDING]_vars

\* C33 witness: the first execution has issued its start update and the
\* record, committed by the submission, is PROCESSING
C33_Witness ==
  \E t \in TaskIds :
    /\ pc[t] = "resolve" /\ runs[t] = 1 /\ retries[t] = 0
    /\ t \in DOMAIN db
    /\ db[t].status = PROCESSING
    /\ db[t].started_at # None

(* ---------------- several jobs: properties ---------------- *)

\* a step of task t that is a call of _update_task_status
IsUpdate(t) ==
  IsStartUpdate(t) \/ IsProgressUpdate(t) \/ IsCompletedUpdate(t)
    \/ IsFailedUpdate(t)

\* C34: with several jobs running, an update issued for one job id changes
\* the record of that id only; the record of every other job is the same
\* after the update as before, however the jobs' updates interleave.
C34_UpdateTouchesOwnRecord ==
  [][\A t \in JobIds :
       IsUpdate(t) =>
         /\ DOMAIN db' = DOMAIN db
         /\ \A u \in DOMAIN db : u # t => db'[u] = db[u]]_vars

\* C34 witness: the two jobs run side by side; the completed update of t1
\* has been issued and stored while t2 is half way through its units, and
\* the record of t2 still holds t2's progress
C34_Witness ==
  /\ pc["t1"] = "committed" /\ pc["t2"] = "run"
  /\ "t1" \in DOMAIN db /\ "t2" \in DOMAIN db
  /\ db["t1"].status = COMPLETED /\ db["t1"].results # None
  /\ done["t2"] = 1 /\ files["t2"] = 2
  /\ db["t2"].status = PROCESSING
  /\ db["t2"].processed_files = 1
  /\ db["t2"].results = None /\ db["t2"].completed_at = None

(* ---------------- completion and missing records: properties ----------- *)

\* C35: once an attempt has marked the job COMPLETED (its results are in the
\* record, which no later update removes) no further execution of the job
\* is started and no completed update is issued for it again.
C35_CompletedOnce ==
  [][\A t \in DOMAIN db :
       db[t].results # None =>
         /\ ~IsStartUpdate(t)
         /\ ~IsCompletedUpdate(t)]_vars

\* C36: an update issued for an id that has no record does nothing: no
\* record is created, no record is changed, and no exception reaches the
\* caller.
C36_UpdateOfMissingIsNoOp ==
  [][(resp'.op = "_update_task_status" /\ resp'.task_id \notin DOMAIN db) =>
       /\ db' = db
       /\ resp'.raised = None]_vars

\* C36 witness: a completed update was issued for an id without a record
\* while the record of another job exists; that record is as it was and
\* there is still no record for the id
C36_Witness ==
  /\ resp.op = "_update_task_status"
  /\ resp.task_id = "ghost" /\ resp.status = COMPLETED
  /\ resp.raised = None
  /\ "ghost" \notin DOMAIN db
  /\ "t1" \in DOMAIN db
  /\ db["t1"].status = PROCESSING /\ db["t1"].results = None

(* ---------------- issue summary: properties ---------------- *)

\* the findings of the result that have the severity
WithSeverity(issues, severity) ==
  {i \in DOMAIN issues : issues[i].severity = severity}

\* C37: the issue summary of a unit result has an entry for each of
\* critical, high, medium and low, each entry is the number of findings of
\* that severity, and the four entries add up to the number of findings.
C37_SummaryCountsBySeverity ==
  resp.op = "get_issue_summary" =>
    LET issues == result[1].value.issues IN
      /\ DOMAIN resp.summary = {"critical", "high", "medium", "low"}
      /\ \A severity \in {"critical", "high", "medium", "low"} :
           resp.summary[severity] = Cardinality(WithSeverity(issues, severity))
      /\ resp.summary["critical"] + resp.summary["high"]
           + resp.summary["medium"] + resp.summary["low"] = Len(issues)

\* C37 witness: the summary of a result with two findings of one severity
\* counts both under it and nothing under the other three
C37_Witness ==
  /\ resp.op = "get_issue_summary"
  /\ Len(result[1].value.issues) = 2
  /\ result[1].value.issues[1].severity = "medium"
  /\ result[1].value.issues[2].severity = "medium"
  /\ resp.summary = [severity \in Severities |->
                       IF severity = "medium" THEN 2 ELSE 0]

====
